---- MODULE Spec2Model ----
(***************************************************************************)
(* Model of ofxstatement-iso20022: Iso20022Plugin.get_parser and           *)
(* Iso20022Parser.parse (src/src/ofxstatement/plugins/iso20022.py).        *)
(*                                                                         *)
(* A document is a record holding the nodes the parser looks up.  A leaf   *)
(* element looked up only for its text is a string: NoNode when find()     *)
(* returns None, None when the element is empty (ElementTree's .text is    *)
(* None), its text otherwise.  Amount and date nodes are records with a    *)
(* `node` flag.  Date texts and namespace URIs are sequences of chunks, so *)
(* that split("+") and startswith() are computed, not assumed.  Amount     *)
(* texts are sequences of characters parsed digit by digit; an amount of   *)
(* the program is the integer number of its hundredths here.  A raised     *)
(* exception is a string naming it; NoErr means the call returned.         *)
(***************************************************************************)
EXTENDS Integers, Sequences, FiniteSets, TLC

VARIABLES settings, file, currency, statement, xmlns, outcome, previous, dt_arg, dt_ret

vars == <<settings, file, currency, statement, xmlns, outcome, previous, dt_arg, dt_ret>>

\* ---------------------------------------------------------------- values

None == "<None>"
NoNode == "<no node>"
NoErr == ""

ParseError_CannotRecognize == "ParseError: Cannot recognize ISO20022 XML"
ParseError_NoCurrency == "ParseError: No account currency provided in statement"
ParseError_NoBalance == "ParseError: No statement balance found for currency"
AttributeError == "AttributeError"
KeyError == "KeyError"
ValueError == "ValueError"
AssertionError == "AssertionError"

ISO20022_NAMESPACE_ROOT == <<"urn:iso:std:iso:20022:tech:xsd:", "camt.053", ".001">>

CD_CREDIT == "CRDT"
CD_DEBIT == "DBIT"

\* Python truthiness of an optional string (None and "" are false).
Truthy(s) == s # None /\ s # ""

\* str.startswith on chunk sequences.
StartsWith(s, p) == Len(s) >= Len(p) /\ SubSeq(s, 1, Len(p)) = p

\* A timestamp slot holding Python's None.
NoneTs == [d |-> None, t |-> None]

Ret(v) == [err |-> NoErr, val |-> v]
Raise(e, v) == [err |-> e, val |-> v]

\* ------------------------------------------------------- _get_namespace

\* re.match('\{(.*)\}', elem.tag): the URI between the braces, '' without.
_get_namespace(tag) == IF tag.braced THEN tag.ns ELSE <<>>

NamespaceOk_first(ns) == Len(ns) >= 1 /\ ns[1] = ISO20022_NAMESPACE_ROOT[1]

\* ns.startswith(ISO20022_NAMESPACE_ROOT)
NamespaceOk(ns) == StartsWith(ns, ISO20022_NAMESPACE_ROOT)

\* --------------------------------------------------------- _notimezone

\* "+" in dt
HasPlus(dt) == \E i \in 1..Len(dt) : dt[i] = "+"

RECURSIVE SplitPlus(_)
\* dt.split("+"): the list of the pieces between the "+" signs.
SplitPlus(dt) ==
    IF ~HasPlus(dt) THEN <<dt>>
    ELSE LET i == CHOOSE k \in 1..Len(dt) :
                     dt[k] = "+" /\ \A j \in 1..(k - 1) : dt[j] # "+"
         IN <<SubSeq(dt, 1, i - 1)>> \o SplitPlus(SubSeq(dt, i + 1, Len(dt)))

\* `dt, tz = dt.split("+")` unpacks exactly two pieces, ValueError otherwise.
_notimezone(dt) ==
    IF ~HasPlus(dt) THEN Ret(dt)
    ELSE LET parts == SplitPlus(dt)
         IN IF Len(parts) # 2 THEN Raise(ValueError, <<>>) ELSE Ret(parts[1])

\* ------------------------------------------------------------ strptime

DateChunks == {"2015-12-01", "2015-12-31", "2016-01-01"}
TimeChunks == {"T10:00:00"}

\* datetime.strptime(v, "%Y-%m-%d")
strptime_date(v) ==
    IF Len(v) = 1 /\ v[1] \in DateChunks
    THEN Ret([d |-> v[1], t |-> "T00:00:00"])
    ELSE Raise(ValueError, NoneTs)

\* datetime.strptime(v, "%Y-%m-%dT%H:%M:%S")
strptime_datetime(v) ==
    IF Len(v) = 2 /\ v[1] \in DateChunks /\ v[2] \in TimeChunks
    THEN Ret([d |-> v[1], t |-> v[2]])
    ELSE Raise(ValueError, NoneTs)

_parse_date(dtnode) ==
    IF ~dtnode.node THEN Ret(NoneTs)
    ELSE IF dtnode.Dt.node
         THEN LET dtvalue == _notimezone(dtnode.Dt.text)
              IN IF dtvalue.err # NoErr THEN Raise(dtvalue.err, NoneTs)
                 ELSE strptime_date(dtvalue.val)
         ELSE IF ~dtnode.DtTm.node THEN Raise(AssertionError, NoneTs)
              ELSE LET dtvalue == _notimezone(dtnode.DtTm.text)
                   IN IF dtvalue.err # NoErr THEN Raise(dtvalue.err, NoneTs)
                      ELSE strptime_datetime(dtvalue.val)

\* -------------------------------------------------------- _parse_amount

Digits == <<"0", "1", "2", "3", "4", "5", "6", "7", "8", "9">>
IsDigit(c) == \E i \in 1..10 : Digits[i] = c
DigitVal(c) == (CHOOSE i \in 1..10 : Digits[i] = c) - 1

RECURSIVE DecVal(_)
DecVal(s) == IF s = <<>> THEN 0 ELSE 10 * DecVal(SubSeq(s, 1, Len(s) - 1)) + DigitVal(s[Len(s)])

\* float(text): an optional sign, digits and at most one decimal point with
\* a digit on one side of it at least; ValueError on anything else.  The
\* value is counted in hundredths (decimals after the second are dropped).
float(text) ==
    LET signed == text # <<>> /\ text[1] \in {"+", "-"}
        body == IF signed THEN Tail(text) ELSE text
        dots == {i \in 1..Len(body) : body[i] = "."}
        dot == IF dots = {} THEN Len(body) + 1 ELSE CHOOSE i \in dots : TRUE
        whole == SubSeq(body, 1, dot - 1)
        frac == SubSeq(body, dot + 1, Len(body))
        hundredths == 100 * DecVal(whole) + DecVal(SubSeq(frac \o <<"0", "0">>, 1, 2))
    IN IF \/ Cardinality(dots) > 1
          \/ whole \o frac = <<>>
          \/ \E i \in 1..Len(whole) : ~IsDigit(whole[i])
          \/ \E i \in 1..Len(frac) : ~IsDigit(frac[i])
       THEN Raise(ValueError, 0)
       ELSE Ret(IF signed /\ text[1] = "-" THEN 0 - hundredths ELSE hundredths)

_parse_amount(amtnode) == float(amtnode.text)

\* ------------------------------------------------------------ Statement

\* Statement(): every field unset, no lines.
Statement ==
    [currency |-> None, bank_id |-> None, account_id |-> None,
     start_balance |-> None, start_date |-> NoneTs,
     end_balance |-> None, end_date |-> NoneTs, lines |-> <<>>]

FreshStatement_reuse(old, cur) == [old EXCEPT !.currency = cur]

\* self.statement = Statement(); self.statement.currency = self.currency
FreshStatement(old, cur) == [Statement EXCEPT !.currency = cur]

\* StatementLine(): every field unset.
StatementLine ==
    [payee |-> None, amount |-> None, date |-> NoneTs, date_user |-> NoneTs,
     refnum |-> None, memo |-> None]

\* ------------------------------------------- _parse_statement_properties

StatementCurrency_default(acctCurrency, cur) ==
    IF cur # None THEN cur ELSE acctCurrency

\* if acctCurrency: self.statement.currency = acctCurrency  (else kept)
StatementCurrency(acctCurrency, cur) ==
    IF Truthy(acctCurrency) THEN acctCurrency ELSE cur

\* dict[key] = value
DictSet(dict, key, value) == (key :> value) @@ dict

RECURSIVE BalLoop(_, _, _, _)
\* for bal in bals: ...  (the balances still to visit, the statement
\* currency, bal_amts and bal_dates so far)
BalLoop(bals, cur, bal_amts, bal_dates) ==
    IF bals = <<>> THEN [err |-> NoErr, bal_amts |-> bal_amts, bal_dates |-> bal_dates]
    ELSE LET bal == Head(bals)
             cd == bal.Cd
             amt == bal.Amt
             dt == bal.Dt
             failed(e) == [err |-> e, bal_amts |-> bal_amts, bal_dates |-> bal_dates]
         IN IF ~amt.node THEN failed(AttributeError)
            ELSE IF amt.Ccy # cur THEN BalLoop(Tail(bals), cur, bal_amts, bal_dates)
            ELSE LET a == _parse_amount(amt)
                     d == _parse_date(dt)
                 IN IF a.err # NoErr THEN failed(a.err)
                    ELSE IF cd = NoNode THEN failed(AttributeError)
                    ELSE IF d.err # NoErr THEN failed(d.err)
                    ELSE BalLoop(Tail(bals), cur,
                                 DictSet(bal_amts, cd, a.val),
                                 DictSet(bal_dates, cd, d.val))

_parse_statement_properties(st, tree) ==
    IF ~tree.Stmt THEN Raise(AttributeError, st)
    ELSE
    LET bnk == IF tree.BIC # NoNode THEN tree.BIC ELSE tree.Nm
        iban == tree.IBAN
        ccy == tree.Ccy
        bals == tree.Bal
        acctCurrency == IF ccy # NoNode THEN ccy ELSE None
        st1 == [st EXCEPT !.currency = StatementCurrency(acctCurrency, st.currency)]
        loop == BalLoop(bals, st1.currency, <<>>, <<>>)
        st2 == [st1 EXCEPT !.bank_id = IF bnk # NoNode THEN bnk ELSE None]
        st3 == [st2 EXCEPT !.account_id = iban]
        st4 == [st3 EXCEPT !.start_balance = loop.bal_amts["OPBD"],
                           !.start_date = loop.bal_dates["OPBD"]]
        st5 == [st4 EXCEPT !.end_balance = loop.bal_amts["CLBD"],
                           !.end_date = loop.bal_dates["CLBD"]]
    IN IF ~Truthy(acctCurrency) /\ st.currency = None
       THEN Raise(ParseError_NoCurrency, st)
       ELSE IF loop.err # NoErr THEN Raise(loop.err, st1)
       ELSE IF DOMAIN loop.bal_amts = {} THEN Raise(ParseError_NoBalance, st1)
       ELSE IF iban = NoNode THEN Raise(AttributeError, st2)
       ELSE IF "OPBD" \notin DOMAIN loop.bal_amts THEN Raise(KeyError, st3)
       ELSE IF "CLBD" \notin DOMAIN loop.bal_amts THEN Raise(KeyError, st4)
       ELSE Ret(st5)

\* ----------------------------------------------------------- _parse_line

IsDebit_credit(crdeb) == crdeb = CD_CREDIT

\* if crdeb == CD_DEBIT
IsDebit(crdeb) == crdeb = CD_DEBIT

SelectMemo_addinf(rmtinf, addinf, memo) ==
    IF addinf # NoNode THEN addinf
    ELSE IF rmtinf # NoNode THEN rmtinf
    ELSE memo

\* if rmtinf is not None: memo = rmtinf.text / elif addinf is not None: ...
SelectMemo(rmtinf, addinf, memo) ==
    IF rmtinf # NoNode THEN rmtinf
    ELSE IF addinf # NoNode THEN addinf
    ELSE memo

\* The result is [err, skip, val]: skip is the `return None` of a line in
\* another currency.
_parse_line(ntry, cur) ==
    LET sline == StatementLine
        failed(e) == [err |-> e, skip |-> FALSE, val |-> sline]
        amtnode == ntry.Amt
        a == _parse_amount(amtnode)
        debit == IsDebit(ntry.CdtDbtInd)
        amt == IF debit THEN 0 - a.val ELSE a.val
        payee == IF debit THEN ntry.CdtrNm ELSE ntry.DbtrNm
        dt == _parse_date(ntry.ValDt)
        bookdt == _parse_date(ntry.BookgDt)
        svcref == IF ntry.TxAcctSvcrRef # NoNode THEN ntry.TxAcctSvcrRef
                  ELSE ntry.AcctSvcrRef
        done == [sline EXCEPT !.payee = IF payee # NoNode THEN payee ELSE None,
                              !.amount = amt,
                              !.date = dt.val,
                              !.date_user = bookdt.val,
                              !.refnum = svcref,
                              !.memo = SelectMemo(ntry.Ustrd, ntry.AddtlNtryInf, sline.memo)]
    IN IF ntry.CdtDbtInd = NoNode THEN failed(AttributeError)
       ELSE IF ~amtnode.node THEN failed(AttributeError)
       ELSE IF amtnode.Ccy # cur THEN [err |-> NoErr, skip |-> TRUE, val |-> sline]
       ELSE IF a.err # NoErr THEN failed(a.err)
       ELSE IF dt.err # NoErr THEN failed(dt.err)
       ELSE IF bookdt.err # NoErr THEN failed(bookdt.err)
       ELSE IF svcref = NoNode THEN failed(AttributeError)
       ELSE [err |-> NoErr, skip |-> FALSE, val |-> done]

AppendLine_front(lines, sline) == <<sline>> \o lines

\* self.statement.lines.append(sline)
AppendLine(lines, sline) == Append(lines, sline)

RECURSIVE _parse_lines(_, _)
\* for ntry in ...: sline = self._parse_line(ntry); append unless None
_parse_lines(st, ntries) ==
    IF ntries = <<>> THEN Ret(st)
    ELSE LET sline == _parse_line(Head(ntries), st.currency)
         IN IF sline.err # NoErr THEN Raise(sline.err, st)
            ELSE IF sline.skip THEN _parse_lines(st, Tail(ntries))
            ELSE _parse_lines([st EXCEPT !.lines = AppendLine(@, sline.val)],
                              Tail(ntries))

\* ----------------------------------------------------------------- parse

NotCalled == "<not called>"
Returned == "<statement returned>"

\* Iso20022Parser.parse(): reads the file, replaces self.statement, and
\* either returns it or raises.  `previous` is the record self.statement
\* named before the call, which an earlier caller may still hold.
Parse ==
    LET st0 == FreshStatement(statement, currency)
        tree == file
        ns == _get_namespace(tree.tag)
        props == _parse_statement_properties(st0, tree)
        lines == _parse_lines(props.val, tree.Ntry)
    IN /\ IF ~NamespaceOk(ns)
          THEN /\ statement' = st0
               /\ xmlns' = xmlns
               /\ outcome' = ParseError_CannotRecognize
          ELSE /\ xmlns' = ns
               /\ IF props.err # NoErr
                  THEN statement' = props.val /\ outcome' = props.err
                  ELSE /\ statement' = lines.val
                       /\ outcome' = IF lines.err # NoErr THEN lines.err ELSE Returned
       /\ previous' = statement
       /\ UNCHANGED <<settings, file, currency, dt_arg, dt_ret>>

\* The file named by self.filename is rewritten between two calls of parse.
WriteFile(doc) ==
    /\ outcome # NotCalled
    /\ file' = doc
    /\ outcome' = NotCalled
    /\ UNCHANGED <<settings, currency, statement, xmlns, previous, dt_arg, dt_ret>>

\* The caller applies _notimezone to the text of a date element.
Notimezone ==
    /\ dt_ret.err = NotCalled
    /\ dt_ret' = _notimezone(dt_arg)
    /\ UNCHANGED <<settings, file, currency, statement, xmlns, outcome, previous, dt_arg>>

\* ------------------------------------------------------------- documents

MaxBals == 2
MaxNtries == 2
MaxLen == 3

El(t) == [node |-> TRUE, text |-> t]
NoEl == [node |-> FALSE, text |-> <<>>]
DateNode(dt, dttm) == [node |-> TRUE, Dt |-> dt, DtTm |-> dttm]
NoDate == [node |-> FALSE, Dt |-> NoEl, DtTm |-> NoEl]
AmtNode(ccy, text) == [node |-> TRUE, Ccy |-> ccy, text |-> text]
NoAmt == [node |-> FALSE, Ccy |-> None, text |-> <<>>]

DtOnly(d) == DateNode(El(<<d>>), NoEl)
DtOnlyTz(d) == DateNode(El(<<d, "+", "02:00">>), NoEl)
DtTmTz(d) == DateNode(NoEl, El(<<d, "T10:00:00", "+", "02:00">>))
DtTwoPlus(d) == DateNode(El(<<d, "+", "02:00", "+", "01:00">>), NoEl)
DtBad == DateNode(El(<<"yesterday">>), NoEl)
DtEmpty == DateNode(NoEl, NoEl)

\* Sequences over S of length at most n.
RECURSIVE SeqUpTo(_, _)
SeqUpTo(S, n) ==
    IF n = 0 THEN {<<>>}
    ELSE LET shorter == SeqUpTo(S, n - 1)
         IN shorter \cup {Append(q, x) : q \in shorter, x \in S}

Tag(ns) == [braced |-> TRUE, ns |-> ns]
NoNsTag == [braced |-> FALSE, ns |-> <<>>]
Camt053v2 == ISO20022_NAMESPACE_ROOT \o <<".02">>

Tags ==
    {Tag(Camt053v2), Tag(ISO20022_NAMESPACE_ROOT),
     Tag(<<"urn:iso:std:iso:20022:tech:xsd:", "camt.052", ".001", ".02">>),
     Tag(<<"urn:iso:std:iso:20022:tech:xsd:", "camt.053">>),
     Tag(<<"http://www.w3.org/1999/xhtml">>), NoNsTag}

Bal(cd, ccy, text, dt) == [Cd |-> cd, Amt |-> AmtNode(ccy, text), Dt |-> dt]

Ntry(cd, amt, cdtr, dbtr, valdt, bookgdt, txref, ref, ustrd, addinf) ==
    [CdtDbtInd |-> cd, Amt |-> amt, CdtrNm |-> cdtr, DbtrNm |-> dbtr,
     ValDt |-> valdt, BookgDt |-> bookgdt, TxAcctSvcrRef |-> txref,
     AcctSvcrRef |-> ref, Ustrd |-> ustrd, AddtlNtryInf |-> addinf]

Doc(tag, stmt, bic, nm, iban, ccy, bals, ntries) ==
    [tag |-> tag, Stmt |-> stmt, BIC |-> bic, Nm |-> nm, IBAN |-> iban,
     Ccy |-> ccy, Bal |-> bals, Ntry |-> ntries]

OpeningIn(ccy) == Bal("OPBD", ccy, <<"3", "0", "6", ".", "5", "3">>, DtOnly("2015-12-01"))
ClosingIn(ccy) == Bal("CLBD", ccy, <<"1", "2", "5", ".", "5", "2">>, DtOnly("2015-12-31"))

\* An entry with every node present, in the given currency.
FullNtry(cd, ccy, ref) ==
    Ntry(cd, AmtNode(ccy, <<"0", ".", "2", "9">>), "AB DNB Bankas", "Jonas",
         DtOnly("2016-01-01"), DtOnly("2015-12-31"), ref, "E-" \o "1",
         "Saskaitos aptarnavimo mokestis", "Komisinis")

\* Documents varying the root tag, the account fields and the account
\* currency.
DocsHead ==
    {Doc(tag, stmt, bn[1], bn[2], iban, ccy, bals, ntries) :
        tag \in Tags, stmt \in BOOLEAN,
        bn \in {<<"AGBLLT2XXXX", NoNode>>, <<NoNode, "DNB">>, <<NoNode, NoNode>>},
        iban \in {"LT000000000000000000", NoNode},
        ccy \in {NoNode, None, "EUR", "USD"},
        bals \in {<<>>, <<OpeningIn("EUR"), ClosingIn("EUR")>>,
                  <<OpeningIn(None), ClosingIn(None)>>},
        ntries \in {<<>>, <<FullNtry(CD_DEBIT, "EUR", "FC1261858984")>>,
                    <<FullNtry(CD_CREDIT, None, "FC1")>>,
                    <<FullNtry(NoNode, "EUR", NoNode)>>}}

BalSet ==
    {Bal(cd, ccy, <<"9">>, DtOnly("2015-12-01")) :
        cd \in {"OPBD", "CLBD", "ITBD"}, ccy \in {"EUR"}}
    \cup {Bal("OPBD", "USD", <<"8">>, DtOnly("2015-12-01")),
          Bal(NoNode, "EUR", <<"9">>, DtOnly("2015-12-01")),
          Bal("OPBD", "EUR", <<"2">>, DtBad),
          Bal("CLBD", "EUR", <<"4">>, DtTmTz("2015-12-31")),
          [Cd |-> "OPBD", Amt |-> NoAmt, Dt |-> DtOnly("2015-12-01")]}

\* Documents varying the balance entries.
DocsBal ==
    {Doc(Tag(Camt053v2), TRUE, "AGBLLT2XXXX", NoNode, iban, ccy, bals,
         <<FullNtry(CD_DEBIT, "EUR", "FC1261858984")>>) :
        iban \in {"LT000000000000000000", NoNode},
        ccy \in {NoNode, "EUR"},
        bals \in SeqUpTo(BalSet, MaxBals)}

NtrySet ==
    {Ntry(cd, AmtNode("EUR", text), p[1], p[2], DtOnly("2016-01-01"),
          DtOnly("2015-12-31"), "TX1", "E1", "rmt", "add") :
        cd \in {CD_CREDIT, CD_DEBIT},
        text \in {<<"5">>, <<"0">>, <<"-", "5", ".", "5">>},
        p \in {<<"AB DNB Bankas", "Jonas">>}}
    \cup
    {Ntry(cd, AmtNode("EUR", <<"1", "5">>), NoNode, NoNode, DtOnly("2016-01-01"),
          DtOnly("2015-12-31"), "TX6", "E6", NoNode, "add6") :
        cd \in {CD_CREDIT, CD_DEBIT}}
    \cup
    {Ntry(CD_CREDIT, AmtNode("EUR", <<"1", "2">>), NoNode, "Jonas",
          DtOnlyTz("2016-01-01"), NoDate, txref, ref, NoNode, NoNode) :
        txref \in {NoNode, "TX2"}, ref \in {NoNode, "E2"}}
    \cup
    {Ntry(CD_DEBIT, AmtNode("EUR", <<"1", "3">>), "Petras", NoNode,
          DtOnlyTz("2016-01-01"), NoDate, NoNode, "E7", ustrd, addinf) :
        ustrd \in {NoNode, None, "rmt7"}, addinf \in {NoNode, "add7"}}
    \cup
    {Ntry(cd, amt, "Cdtr", "Dbtr", valdt, DtOnly("2015-12-31"),
          NoNode, "E3", NoNode, NoNode) :
        cd \in {CD_DEBIT}, amt \in {AmtNode("EUR", <<"3">>)},
        valdt \in {DtTmTz("2016-01-01"), DtTwoPlus("2016-01-01"), DtEmpty}}
    \cup
    {Ntry(CD_DEBIT, AmtNode("USD", <<"8">>), "Cdtr", "Dbtr", DtOnly("2016-01-01"),
          DtOnly("2015-12-31"), "TX4", "E4", NoNode, NoNode),
     Ntry(CD_CREDIT, AmtNode(None, <<"8">>), "Cdtr", "Dbtr", DtOnly("2016-01-01"),
          DtOnly("2015-12-31"), NoNode, NoNode, NoNode, NoNode),
     Ntry(NoNode, AmtNode("USD", <<"8">>), "Cdtr", "Dbtr", DtOnly("2016-01-01"),
          DtOnly("2015-12-31"), "TX4", "E4", NoNode, NoNode),
     Ntry(CD_DEBIT, NoAmt, "Cdtr", "Dbtr", DtOnly("2016-01-01"),
          DtOnly("2015-12-31"), "TX4", "E4", NoNode, NoNode),
     Ntry(CD_DEBIT, AmtNode("EUR", <<"1", ",", "5">>), "Cdtr", "Dbtr",
          DtOnly("2016-01-01"), DtOnly("2015-12-31"), "TX4", "E4", NoNode, NoNode),
     Ntry("OTHR", AmtNode("EUR", <<"6">>), "Cdtr", "Dbtr", DtOnly("2016-01-01"),
          DtOnly("2015-12-31"), "TX5", "E5", NoNode, NoNode)}

\* Documents varying the entries.
DocsNtry ==
    {Doc(Tag(Camt053v2), TRUE, "AGBLLT2XXXX", NoNode, "LT000000000000000000",
         "EUR", <<OpeningIn("EUR"), ClosingIn("EUR")>>, ntries) :
        ntries \in SeqUpTo(NtrySet, MaxNtries)}

Settings == {None, "", "EUR", "USD"}

\* Documents a parser is called on repeatedly.
DocsCalls ==
    {Doc(tag, TRUE, "AGBLLT2XXXX", NoNode, "LT000000000000000000", ccy,
         <<OpeningIn("EUR"), ClosingIn("EUR"),
           Bal("OPBD", "USD", <<"4", "0">>, DtOnly("2015-12-01")),
           Bal("CLBD", "USD", <<"5", "0">>, DtOnly("2015-12-31"))>>,
         ntries) :
        tag \in {Tag(Camt053v2), NoNsTag},
        ccy \in {NoNode, "EUR", "USD"},
        ntries \in {<<>>,
                    <<FullNtry(CD_DEBIT, "EUR", "FC1"), FullNtry(CD_CREDIT, "USD", "FC2")>>,
                    <<FullNtry(CD_CREDIT, "USD", "FC3"), FullNtry(NoNode, "EUR", "FC4")>>,
                    <<FullNtry(CD_CREDIT, "EUR", "FC5"), FullNtry(CD_DEBIT, "EUR", NoNode)>>}}

TzAlphabet == {"2017-04-01", "T10:00:00", "+", "02:00"}

\* ------------------------------------------------------- specifications

NotCalledRet == [err |-> NotCalled, val |-> <<>>]

\* Iso20022Plugin.get_parser: self.currency is the plugin's 'currency'
\* setting; no statement exists before the first parse().
Constructed ==
    /\ currency = settings
    /\ statement = Statement
    /\ xmlns = <<>>
    /\ outcome = NotCalled
    /\ previous = Statement

Init ==
    /\ \/ settings \in Settings /\ file \in DocsHead
       \/ settings \in {None, "USD"} /\ file \in DocsBal
       \/ settings = None /\ file \in DocsNtry
    /\ Constructed
    /\ dt_arg = <<>>
    /\ dt_ret = NotCalledRet

Next == Parse

Spec == Init /\ [][Next]_vars

InitCalls ==
    /\ settings \in Settings
    /\ file \in DocsCalls
    /\ Constructed
    /\ dt_arg = <<>>
    /\ dt_ret = NotCalledRet

NextCalls == Parse \/ \E doc \in DocsCalls : WriteFile(doc)

SpecCalls == InitCalls /\ [][NextCalls]_vars

InitTz ==
    /\ settings = None
    /\ file = Doc(NoNsTag, FALSE, NoNode, NoNode, NoNode, NoNode, <<>>, <<>>)
    /\ Constructed
    /\ dt_arg \in SeqUpTo(TzAlphabet, MaxLen)
    /\ dt_ret = NotCalledRet

NextTz == Notimezone

SpecTz == InitTz /\ [][NextTz]_vars

\* ------------------------------------------------ vocabulary of the claims

Called == outcome # NotCalled
Ok == outcome = Returned

\* The failures parse() raises as exceptions.ParseError.
ParseErrors == {ParseError_CannotRecognize, ParseError_NoCurrency, ParseError_NoBalance}

\* The document carries an account-level currency code.
DocHasCcy == file.Ccy \notin {NoNode, None, ""}

\* The effective currency: the document's code, else the configured default.
Eff == IF DocHasCcy THEN file.Ccy ELSE settings

\* The root tag's namespace belongs to the camt.053.001 family.
Camt053Family ==
    /\ file.tag.braced
    /\ Len(file.tag.ns) >= 3
    /\ file.tag.ns[1] = "urn:iso:std:iso:20022:tech:xsd:"
    /\ file.tag.ns[2] = "camt.053"
    /\ file.tag.ns[3] = ".001"

DateFine(dtnode) == _parse_date(dtnode).err = NoErr

\* A balance entry with its code, a numeric amount and a readable date.
BalanceFine(b) ==
    b.Amt.node /\ b.Cd # NoNode /\ float(b.Amt.text).err = NoErr /\ DateFine(b.Dt)

\* A balance with the given code is left after the currency filter.
Survives(code) ==
    \E i \in 1..Len(file.Bal) :
        file.Bal[i].Amt.node /\ file.Bal[i].Amt.Ccy = Eff /\ file.Bal[i].Cd = code

\* Nothing but the balances can make the statement-level extraction fail.
ReachesBalances ==
    /\ Camt053Family
    /\ file.Stmt
    /\ file.IBAN # NoNode
    /\ Eff # None
    /\ \A i \in 1..Len(file.Bal) : BalanceFine(file.Bal[i])

HeaderFine == ReachesBalances /\ Survives("OPBD") /\ Survives("CLBD")

InEff(e) == e.Amt.node /\ e.Amt.Ccy = Eff

\* The entries of the document in the record's currency, in document order.
InRecordCcy(e) == e.Amt.node /\ e.Amt.Ccy = statement.currency
Included == SelectSeq(file.Ntry, InRecordCcy)

\* An entry whose indicator, amount and dates can be read.
EntryFine(e) ==
    /\ e.CdtDbtInd # NoNode
    /\ e.Amt.node
    /\ InEff(e) => /\ float(e.Amt.text).err = NoErr
                   /\ DateFine(e.ValDt)
                   /\ DateFine(e.BookgDt)

HasRef(e) == e.TxAcctSvcrRef # NoNode \/ e.AcctSvcrRef # NoNode
RefOf(e) == IF e.TxAcctSvcrRef # NoNode THEN e.TxAcctSvcrRef ELSE e.AcctSvcrRef
NameOf(node) == IF node = NoNode THEN None ELSE node
Abs(n) == IF n < 0 THEN 0 - n ELSE n

\* ------------------------------------------------------------------ C1

C2_ParsesWithoutAnyCurrency ==
    ( /\ Called
      /\ ~DocHasCcy
      /\ settings = None
      /\ Camt053Family
      /\ file.Stmt
      /\ file.IBAN # NoNode
      /\ file.Bal = <<OpeningIn(None), ClosingIn(None)>>
      /\ file.Ntry \in {<<>>, <<FullNtry(CD_CREDIT, None, "FC1")>>} )
    => /\ Ok
       /\ statement.currency = None
       /\ statement.start_balance = 30653
       /\ statement.end_balance = 12552
       /\ Len(statement.lines) = Len(file.Ntry)

\* ------------------------------------------------------------------ C3

\* C3: when no opening (OPBD) or no closing (CLBD) balance is left after
\* dropping the balances in another currency, the parse fails with the
\* "no statement balance" ParseError, also when only one of the two or
\* only other codes are left.
C3_MissingBalanceIsReconciliationError ==
    (Called /\ ReachesBalances /\ (~Survives("OPBD") \/ ~Survives("CLBD")))
    => outcome = ParseError_NoBalance

\* ------------------------------------------------------------------ C4

\* C4: a returned record has one line for each entry in the record's
\* currency and no other, in document order; and entries in another
\* currency never make an otherwise readable document fail.
C4_LinesAreTheEntriesInCurrency ==
    /\ Ok =>
         /\ Len(statement.lines) = Len(Included)
         /\ \A i \in 1..Len(statement.lines) :
              /\ statement.lines[i].refnum \in
                     {Included[i].TxAcctSvcrRef, Included[i].AcctSvcrRef}
              /\ Abs(statement.lines[i].amount) = Abs(float(Included[i].Amt.text).val)
    /\ ( /\ Called
         /\ HeaderFine
         /\ \A i \in 1..Len(file.Ntry) :
                EntryFine(file.Ntry[i]) /\ (InEff(file.Ntry[i]) => HasRef(file.Ntry[i])) )
       => Ok

C4_Witness ==
    /\ Ok
    /\ Len(file.Ntry) = 2
    /\ Len(statement.lines) = 1
    /\ file.Ntry[1].Amt.Ccy # statement.currency
    /\ statement.lines[1].refnum = RefOf(file.Ntry[2])

\* ------------------------------------------------------------------ C5

\* C5 as stated: a debit line's amount is negative and its payee the
\* creditor's name; a credit line's amount is non-negative and its payee
\* the debtor's name; the payee is absent without the related party.
C5_DebitNegativeCreditNonNegative ==
    Ok =>
        /\ Len(statement.lines) = Len(Included)
        /\ \A i \in 1..Len(statement.lines) :
             /\ Included[i].CdtDbtInd = CD_DEBIT =>
                    /\ statement.lines[i].amount < 0
                    /\ statement.lines[i].payee = NameOf(Included[i].CdtrNm)
             /\ Included[i].CdtDbtInd = CD_CREDIT =>
                    /\ statement.lines[i].amount >= 0
                    /\ statement.lines[i].payee = NameOf(Included[i].DbtrNm)

\* C5 amended: a debit line's amount is the negation of the value of the
\* entry's amount text and its payee the creditor's name; a credit line's
\* amount is that value and its payee the debtor's name; the payee is
\* absent without the related party.
C5_DebitNegatesCreditKeeps ==
    Ok =>
        /\ Len(statement.lines) = Len(Included)
        /\ \A i \in 1..Len(statement.lines) :
             /\ Included[i].CdtDbtInd = CD_DEBIT =>
                    /\ statement.lines[i].amount + float(Included[i].Amt.text).val = 0
                    /\ statement.lines[i].payee = NameOf(Included[i].CdtrNm)
             /\ Included[i].CdtDbtInd = CD_CREDIT =>
                    /\ statement.lines[i].amount = float(Included[i].Amt.text).val
                    /\ statement.lines[i].payee = NameOf(Included[i].DbtrNm)

C5_Witness ==
    /\ Ok
    /\ Len(statement.lines) = 2
    /\ Included[1].CdtDbtInd = CD_DEBIT
    /\ statement.lines[1].amount < 0
    /\ statement.lines[1].payee = "AB DNB Bankas"
    /\ Included[2].CdtDbtInd = CD_CREDIT
    /\ statement.lines[2].amount > 0
    /\ statement.lines[2].payee = None

\* ------------------------------------------------------------------ C6

\* C6: a line's refnum is the transaction-detail service reference when
\* that node exists, else the entry-level one; an included entry with
\* neither makes the parse fail with a ParseError.
C6_RefnumOrFormatError ==
    /\ Ok =>
         /\ Len(statement.lines) = Len(Included)
         /\ \A i \in 1..Len(statement.lines) :
                statement.lines[i].refnum = RefOf(Included[i])
    /\ ( /\ Called
         /\ HeaderFine
         /\ \A i \in 1..Len(file.Ntry) : EntryFine(file.Ntry[i])
         /\ \E i \in 1..Len(file.Ntry) : InEff(file.Ntry[i]) /\ ~HasRef(file.Ntry[i]) )
       => outcome \in ParseErrors

\* ------------------------------------------------------------------ C7

\* C7: _notimezone returns a text without "+" unchanged (so applying it
\* again changes nothing); of a text with "+" it returns the part before
\* the "+", and it never fails, also with more than one "+".
C7_NotimezoneNeverFails ==
    dt_ret.err # NotCalled =>
        /\ (\A i \in 1..Len(dt_arg) : dt_arg[i] # "+") =>
               /\ dt_ret = Ret(dt_arg)
               /\ _notimezone(dt_ret.val) = dt_ret
        /\ (\E i \in 1..Len(dt_arg) : dt_arg[i] = "+") =>
               /\ dt_ret.err = NoErr
               /\ \E k \in 1..Len(dt_arg) :
                      dt_arg[k] = "+" /\ dt_ret.val = SubSeq(dt_arg, 1, k - 1)

\* ------------------------------------------------------------------ C8

\* The amount of the last balance with the given code in the effective
\* currency.
BalanceOf(code) ==
    LET last == CHOOSE i \in 1..Len(file.Bal) :
                    /\ file.Bal[i].Amt.Ccy = Eff /\ file.Bal[i].Cd = code
                    /\ \A j \in (i + 1)..Len(file.Bal) :
                           ~(file.Bal[j].Amt.Ccy = Eff /\ file.Bal[j].Cd = code)
    IN float(file.Bal[last].Amt.text).val

EntriesInEff == SelectSeq(file.Ntry, InEff)

\* C8: whatever was parsed before, the parser's default currency stays the
\* one it was constructed with, and a returned record holds the currency,
\* the balances and the lines of the document of this call only.
C8_StatelessAcrossCalls ==
    /\ currency = settings
    /\ Ok =>
         /\ statement.currency = Eff
         /\ statement.start_balance = BalanceOf("OPBD")
         /\ statement.end_balance = BalanceOf("CLBD")
         /\ Len(statement.lines) = Len(EntriesInEff)
         /\ \A i \in 1..Len(statement.lines) :
                statement.lines[i].refnum = RefOf(EntriesInEff[i])

C8_Witness ==
    /\ Ok
    /\ Len(previous.lines) > 0
    /\ previous.currency \notin {None, statement.currency}
    /\ statement.currency # currency
    /\ Len(statement.lines) = 1
    /\ statement.lines # previous.lines

\* ------------------------------------------------------------------ C9

\* The memo the claim names for an entry.
MemoOf(e) ==
    IF e.Ustrd # NoNode THEN e.Ustrd
    ELSE IF e.AddtlNtryInf # NoNode THEN e.AddtlNtryInf
    ELSE None

\* C9: a line's memo is the text of the structured remittance information
\* when that node exists, else the text of the entry's additional
\* information when that node exists, else absent.
C9_MemoPrefersRemittanceInfo ==
    Ok =>
        /\ Len(statement.lines) = Len(Included)
        /\ \A i \in 1..Len(statement.lines) :
               statement.lines[i].memo = MemoOf(Included[i])

C9_Witness ==
    /\ Ok
    /\ Len(statement.lines) = 2
    /\ Included[1].Ustrd \notin {NoNode, None}
    /\ Included[1].AddtlNtryInf \notin {NoNode, None, Included[1].Ustrd}
    /\ statement.lines[1].memo = Included[1].Ustrd
    /\ Included[2].Ustrd = NoNode
    /\ Included[2].AddtlNtryInf # NoNode
    /\ statement.lines[2].memo = Included[2].AddtlNtryInf

\* ----------------------------------------------------------------- C10

\* C10: a document whose root namespace is outside the camt.053.001 family
\* fails with the "cannot recognize" ParseError whatever else is wrong with
\* it, and nothing of it is extracted: no account, balance date or line.
C10_NamespaceCheckedFirst ==
    (Called /\ ~Camt053Family) =>
        /\ outcome = ParseError_CannotRecognize
        /\ statement.currency = currency
        /\ statement.account_id = None
        /\ statement.start_date = NoneTs
        /\ statement.end_date = NoneTs
        /\ statement.lines = <<>>

C10_Witness ==
    /\ outcome = ParseError_CannotRecognize
    /\ file.tag.braced
    /\ ~DocHasCcy
    /\ settings = None
    /\ file.Bal = <<>>
    /\ file.IBAN = NoNode
    /\ Len(file.Ntry) = 1
    /\ file.Ntry[1].CdtDbtInd = NoNode

====
